---- MODULE Spec2Model ----
(***************************************************************************)
(* Rule based classification (Rule_Based_Classification.py).               *)
(*                                                                         *)
(* The script reads a batch of transactions (df), aggregates it into       *)
(* agg_df (mean PRICE per COUNTRY, SOURCE, SEX, AGE), buckets AGE with     *)
(* pd.cut, builds the persona key customers_level_based, aggregates again  *)
(* into agg_df_final (mean of the agg_df PRICEs per key), labels the       *)
(* personas with pd.qcut, and then runs the interactive lookup             *)
(* clb_country -> clb_source -> clb_sex -> clb_age.                        *)
(*                                                                         *)
(* Strings are sequences of one-character strings, so that upper(),        *)
(* lower(), slicing, str() and int() are computed, not assumed.            *)
(* Floating point prices are exact rationals <<numerator, denominator>>    *)
(* in lowest terms.                                                        *)
(***************************************************************************)
EXTENDS Integers, Sequences, FiniteSets, Bags, TLC

VARIABLES df, agg_df, agg_df_final, pc, country, source, sex, age,
          lastInput, pending, out, err

vars == <<df, agg_df, agg_df_final, pc, country, source, sex, age,
          lastInput, pending, out, err>>

----------------------------------------------------------------------------
(* Bounds of the model *)

\* largest number of rows of persona.csv
MaxRecords == 3

\* largest number of rejected inputs in one lookup session
MaxRetries == 1

----------------------------------------------------------------------------
(* Strings *)

LowerCase == <<"a","b","c","d","e","f","g","h","i","j","k","l","m",
               "n","o","p","q","r","s","t","u","v","w","x","y","z">>

UpperCase == <<"A","B","C","D","E","F","G","H","I","J","K","L","M",
               "N","O","P","Q","R","S","T","U","V","W","X","Y","Z">>

Digits == <<"0","1","2","3","4","5","6","7","8","9">>

\* position of character c in alphabet, 0 when absent
Pos(c, alphabet) ==
    IF \E i \in 1..Len(alphabet) : alphabet[i] = c
    THEN CHOOSE i \in 1..Len(alphabet) : alphabet[i] = c
    ELSE 0

\* str.upper()
upper(s) ==
    [i \in 1..Len(s) |->
        IF Pos(s[i], LowerCase) # 0 THEN UpperCase[Pos(s[i], LowerCase)] ELSE s[i]]

\* str.lower()
lower(s) ==
    [i \in 1..Len(s) |->
        IF Pos(s[i], UpperCase) # 0 THEN LowerCase[Pos(s[i], UpperCase)] ELSE s[i]]

\* s[:n]
Slice(s, n) == SubSeq(s, 1, IF Len(s) < n THEN Len(s) ELSE n)

RECURSIVE NatToStr(_)
NatToStr(n) ==
    IF n < 10 THEN <<Digits[n + 1]>>
    ELSE NatToStr(n \div 10) \o <<Digits[(n % 10) + 1]>>

\* str(n) of an int
str(n) == IF n < 0 THEN <<"-">> \o NatToStr(0 - n) ELSE NatToStr(n)

RECURSIVE DigitsValue(_)
DigitsValue(s) ==
    IF Len(s) = 0 THEN 0
    ELSE 10 * DigitsValue(SubSeq(s, 1, Len(s) - 1)) + (Pos(s[Len(s)], Digits) - 1)

AllDigits(s) == Len(s) > 0 /\ \A i \in 1..Len(s) : Pos(s[i], Digits) # 0

\* int(s): an optional sign followed by decimal digits, anything else raises
\* ValueError (reported here as ok = FALSE).
int(s) ==
    IF AllDigits(s) THEN [ok |-> TRUE, value |-> DigitsValue(s)]
    ELSE IF Len(s) > 1 /\ s[1] = "-" /\ AllDigits(Tail(s))
         THEN [ok |-> TRUE, value |-> 0 - DigitsValue(Tail(s))]
    ELSE IF Len(s) > 1 /\ s[1] = "+" /\ AllDigits(Tail(s))
         THEN [ok |-> TRUE, value |-> DigitsValue(Tail(s))]
    ELSE [ok |-> FALSE, value |-> 0]

----------------------------------------------------------------------------
(* Exact rationals standing for the float PRICE values *)

RECURSIVE Gcd(_, _)
Gcd(a, b) == IF b = 0 THEN a ELSE Gcd(b, a % b)

Frac(n, d) == <<n \div Gcd(n, d), d \div Gcd(n, d)>>

FAdd(p, q) == Frac(p[1] * q[2] + q[1] * p[2], p[2] * q[2])

FLess(p, q) == p[1] * q[2] < q[1] * p[2]

RECURSIVE FSum(_, _)
\* sum of f[x] over the finite set S
FSum(S, f) ==
    IF S = {} THEN <<0, 1>>
    ELSE LET x == CHOOSE y \in S : TRUE
         IN FAdd(f[x], FSum(S \ {x}, f))

RECURSIVE NSum(_, _)
NSum(S, f) ==
    IF S = {} THEN 0
    ELSE LET x == CHOOSE y \in S : TRUE
         IN f[x] + NSum(S \ {x}, f)

----------------------------------------------------------------------------
(* The pipeline: agg_df, AGE_CAT, customers_level_based, agg_df_final,     *)
(* SEGMENT                                                                 *)

\* a missing interval (pd.cut of an age outside the bins)
NaN == [nan |-> TRUE]

\* a missing cell of a string column
NaNCell == <<"NaN">>

\* what a function returns when it falls off its end
None == [none |-> TRUE]

\* the bin edges given to pd.cut
Bins == <<0, 19, 24, 31, 41, 70>>

\* pd.cut(a, bins, right=False) of one value: the interval [left, right)
\* holding it, NaN when no interval does
cut(a, bins) ==
    IF \E i \in 1..(Len(bins) - 1) : bins[i] <= a /\ a < bins[i + 1]
    THEN LET i == CHOOSE j \in 1..(Len(bins) - 1) : bins[j] <= a /\ a < bins[j + 1]
         IN [left |-> bins[i], right |-> bins[i + 1]]
    ELSE NaN

\* lambda x: str(x.left)+"_"+str(x.right-1), applied to the categories only:
\* a missing value stays missing
age_cat(x) ==
    IF x = NaN THEN NaNCell
    ELSE str(x.left) \o <<"_">> \o str(x.right - 1)

\* the rows of df that fall in group g = <<COUNTRY, SOURCE, SEX, AGE>>
GroupRows(d, g) ==
    {r \in BagToSet(d) : <<r.COUNTRY, r.SOURCE, r.SEX, r.AGE>> = g}

\* df.groupby(["COUNTRY","SOURCE","SEX","AGE"])["PRICE"].agg("mean")
\*   .sort_values().reset_index()
\* The rows are kept as a set: nothing below reads their order.
groupby_mean(d) ==
    { [COUNTRY |-> g[1], SOURCE |-> g[2], SEX |-> g[3], AGE |-> g[4],
       PRICE   |-> LET rows == GroupRows(d, g)
                   IN Frac(NSum(rows, [r \in rows |-> CopiesIn(r, d) * r.PRICE]),
                           NSum(rows, [r \in rows |-> CopiesIn(r, d)]))]
      : g \in {<<r.COUNTRY, r.SOURCE, r.SEX, r.AGE>> : r \in BagToSet(d)} }

\* agg_df["AGE_CAT"] = pd.cut(...), then .apply(lambda ...)
with_age_cat(rows) ==
    { [f \in DOMAIN x \cup {"AGE_CAT"} |->
          IF f = "AGE_CAT" THEN age_cat(cut(x.AGE, Bins)) ELSE x[f]] : x \in rows }

\* the key with column 2 (SEX) joined a second time where column 5 (AGE_CAT)
\* belongs
customers_level_based_without_bucket(x) ==
    upper(x.COUNTRY) \o <<"_">> \o upper(x.SOURCE) \o <<"_">> \o
    upper(x.SEX) \o <<"_">> \o upper(x.SEX)

\* x[0].upper()+"_"+x[1].upper()+"_"+x[2].upper()+"_"+x[5].upper()
customers_level_based(x) ==
    upper(x.COUNTRY) \o <<"_">> \o upper(x.SOURCE) \o <<"_">> \o
    upper(x.SEX) \o <<"_">> \o upper(x.AGE_CAT)

with_level(rows) ==
    { [f \in DOMAIN x \cup {"customers_level_based"} |->
          IF f = "customers_level_based" THEN customers_level_based(x) ELSE x[f]]
      : x \in rows }

\* agg_df[["customers_level_based","PRICE"]].groupby("customers_level_based")
\*   ["PRICE"].agg("mean").reset_index()
final_mean(rows) ==
    { [customers_level_based |-> k,
       PRICE |-> LET grp == {x \in rows : x.customers_level_based = k}
                     s   == FSum(grp, [x \in grp |-> x.PRICE])
                 IN Frac(s[1], s[2] * Cardinality(grp))]
      : k \in {x.customers_level_based : x \in rows} }

RECURSIVE SortedPrices(_)
\* the PRICE column in ascending order, one entry per row
SortedPrices(rows) ==
    IF rows = {} THEN <<>>
    ELSE LET m == CHOOSE x \in rows : \A y \in rows : ~FLess(y.PRICE, x.PRICE)
         IN <<m.PRICE>> \o SortedPrices(rows \ {m})

\* the k/q quantile of the ascending sequence xs by linear interpolation
\* between the order statistics around position (n-1)*k/q
quantile(xs, k, q) ==
    LET n   == Len(xs)
        lo  == ((n - 1) * k) \div q
        rem == ((n - 1) * k) % q
    IN IF rem = 0 THEN xs[lo + 1]
       ELSE Frac((q - rem) * xs[lo + 1][1] * xs[lo + 2][2]
                   + rem * xs[lo + 2][1] * xs[lo + 1][2],
                 q * xs[lo + 1][2] * xs[lo + 2][2])

\* the q+1 bin edges pd.qcut computes
qcut_bins(rows, q) ==
    [i \in 1..(q + 1) |-> quantile(SortedPrices(rows), i - 1, q)]

\* duplicates="raise": "Bin edges must be unique"
bins_unique(bins) ==
    \A i, j \in 1..Len(bins) : i # j => bins[i] # bins[j]

\* the labels listed from the highest segment down
LabelsDescending == <<"A", "B", "C", "D">>

\* labels=["D", "C", "B", "A"]
Labels == <<"D", "C", "B", "A">>

\* bins.searchsorted(x, side="left"), with include_lowest: the number of the
\* bin (bins[i], bins[i+1]] holding x, the lowest edge counted in bin 1
bin_of(x, bins) ==
    IF x = bins[1] THEN 1
    ELSE Cardinality({i \in 1..Len(bins) : FLess(bins[i], x)})

\* agg_df_final["SEGMENT"] = pd.qcut(agg_df_final["PRICE"], 4, labels=...)
with_segment(rows) ==
    LET bins == qcut_bins(rows, Len(Labels))
    IN { [f \in DOMAIN x \cup {"SEGMENT"} |->
            IF f = "SEGMENT" THEN Labels[bin_of(x.PRICE, bins)] ELSE x[f]]
         : x \in rows }

----------------------------------------------------------------------------
(* The interactive lookup *)

\* the value of a local variable that has not been assigned
Unbound == <<"unbound">>

\* df[col].values
Values(d, col) == {r[col] : r \in BagToSet(d)}

\* the membership test without .lower()
in_values_as_typed(s, d, col) == s \in Values(d, col)

\* <input>.lower() in df[col].values
in_values(s, d, col) == lower(s) \in Values(d, col)

\* for i in pd.cut(agg_df["AGE"], [0, 19, 24, 31, 41, 70], right=False):
\*     if (age >= i.left) and (age < i.right): return i
\* Only the intervals of the ages that occur in agg_df are visited; they are
\* disjoint, so at most one of them holds a.
define_interval(rows, a) ==
    LET visited == {cut(x.AGE, Bins) : x \in rows}
        hits    == {i \in visited : a >= i.left /\ a < i.right}
    IN IF hits = {} THEN None ELSE CHOOSE i \in hits : TRUE

\* the lookup key with the exclusive upper bound of the interval
person_with_open_bound(c, s, x, interval) ==
    upper(c) \o <<"_">> \o upper(s) \o <<"_">> \o upper(x) \o <<"_">> \o
    str(interval.left) \o <<"_">> \o str(interval.right)

\* country.upper() + "_" + source.upper() + "_" + sex.upper() + "_" +
\*   str(interval.left) + "_" + str(interval.right-1)
person(c, s, x, interval) ==
    upper(c) \o <<"_">> \o upper(s) \o <<"_">> \o upper(x) \o <<"_">> \o
    str(interval.left) \o <<"_">> \o str(interval.right - 1)

\* agg_df_final[agg_df_final["customers_level_based"] == person]
matching(rows, key) == {x \in rows : x.customers_level_based = key}

Line(text) == [text |-> text, rows |-> {}]

Printed(rows) == [text |-> "<rows>", rows |-> rows]

RejectTexts == {"Enter a valid country name", "Enter a valid source",
                "Enter a valid sex", "Enter a valid number"}

Rejections(o) == Cardinality({i \in DOMAIN o : o[i].text \in RejectTexts})

----------------------------------------------------------------------------
(* Inputs *)

tur    == <<"t","u","r">>
TUR    == <<"T","U","R">>
turk   == <<"t","u","r","k">>
turkey == <<"t","u","r","k","e","y">>
fra    == <<"f","r","a">>
ios    == <<"i","o","s">>
tur_ios == <<"t","u","r","_","i","o","s">>
ios_ios == <<"i","o","s","_","i","o","s">>
web    == <<"w","e","b">>
male   == <<"m","a","l","e">>
female == <<"f","e","m","a","l","e">>

\* the rows persona.csv may hold under Spec
RecordDomain ==
    [COUNTRY : {tur}, SOURCE : {ios}, SEX : {female, male},
     AGE : {25, 26, 45, 70}, PRICE : {29, 39, 49}]

\* the rows persona.csv may hold under SpecCodes: codes in either case and
\* a country code longer than three characters
CodeDomain ==
    [COUNTRY : {tur, TUR, turk}, SOURCE : {ios}, SEX : {female},
     AGE : {25, 45}, PRICE : {29, 39}]

\* the rows persona.csv may hold under SpecKeys: codes in either case and
\* codes that hold the "_" the keys are joined with
KeyDomain ==
    [COUNTRY : {tur, TUR, tur_ios}, SOURCE : {ios, ios_ios}, SEX : {female},
     AGE : {25, 45}, PRICE : {29, 39}]

\* what the user may type at the prompts
CountryInputs == {tur, TUR, turk, turkey, fra}
SourceInputs  == {ios, web}
SexInputs     == {female, male}
AgeInputs     == {<<"3","0">>, <<"4","5">>, <<"7","0">>, <<"-","1">>, <<"x">>}

RECURSIVE BagsOfSize(_, _)
BagsOfSize(D, n) ==
    IF n = 0 THEN {EmptyBag}
    ELSE {b (+) SetToBag({r}) : b \in BagsOfSize(D, n - 1), r \in D}

\* the non-empty batches of at most n rows over D
Batches(D, n) == UNION {BagsOfSize(D, k) : k \in 1..n}

----------------------------------------------------------------------------
(* State machine *)

\* persona = pd.read_csv("persona.csv"); df = persona.copy()
InitWith(D) ==
    /\ df \in Batches(D, MaxRecords)
    /\ agg_df = {}
    /\ agg_df_final = {}
    /\ pc = "agg"
    /\ country = Unbound
    /\ source = Unbound
    /\ sex = Unbound
    /\ age = [ok |-> FALSE, value |-> 0]
    /\ lastInput = <<>>
    /\ pending = 0
    /\ out = <<>>
    /\ err = ""

Init == InitWith(RecordDomain)

InitCodes == InitWith(CodeDomain)

InitKeys == InitWith(KeyDomain)

Lookup == <<country, source, sex, age, lastInput, pending, out>>

\* line 69-70
AggStep ==
    /\ pc = "agg"
    /\ agg_df' = groupby_mean(df)
    /\ pc' = "age_cat"
    /\ UNCHANGED <<df, agg_df_final, Lookup, err>>

\* line 75-77
AgeCatStep ==
    /\ pc = "age_cat"
    /\ agg_df' = with_age_cat(agg_df)
    /\ pc' = "level"
    /\ UNCHANGED <<df, agg_df_final, Lookup, err>>

\* line 82-83: an age outside the bins has a missing AGE_CAT (pd.cut gives
\* NaN and .apply leaves it missing), and x[5].upper() of that float raises
\* AttributeError, which ends the script before any table is built
LevelStep ==
    /\ pc = "level"
    /\ IF \E x \in agg_df : x.AGE_CAT = NaNCell
       THEN /\ err' = "AttributeError"
            /\ pc' = "crashed"
            /\ UNCHANGED agg_df
       ELSE /\ agg_df' = with_level(agg_df)
            /\ pc' = "final"
            /\ UNCHANGED err
    /\ UNCHANGED <<df, agg_df_final, Lookup>>

\* line 85-86
FinalStep ==
    /\ pc = "final"
    /\ agg_df_final' = final_mean(agg_df)
    /\ pc' = "segment"
    /\ UNCHANGED <<df, agg_df, Lookup, err>>

\* line 95: pd.qcut raises ValueError when two bin edges coincide
SegmentStep ==
    /\ pc = "segment"
    /\ IF bins_unique(qcut_bins(agg_df_final, Len(Labels)))
       THEN /\ agg_df_final' = with_segment(agg_df_final)
            /\ pc' = "clb_country"
            /\ UNCHANGED err
       ELSE /\ err' = "ValueError"
            /\ pc' = "crashed"
            /\ UNCHANGED agg_df_final
    /\ UNCHANGED <<df, agg_df, Lookup>>

\* line 135-143
clb_country ==
    /\ pc = "clb_country"
    /\ \E typed \in CountryInputs :
         LET c == Slice(typed, 3)
         IN /\ lastInput' = typed
            /\ IF in_values(c, df, "COUNTRY")
               THEN /\ country' = c
                    /\ out' = Append(out, Line("Enter Country: "))
                    /\ pc' = "clb_source"
               ELSE /\ Rejections(out) < MaxRetries
                    /\ out' = out \o <<Line("Enter Country: "),
                                       Line("Enter a valid country name")>>
                    /\ pc' = "clb_country"
                    /\ UNCHANGED country
    /\ UNCHANGED <<df, agg_df, agg_df_final, source, sex, age, pending, err>>

\* line 146-153
clb_source ==
    /\ pc = "clb_source"
    /\ \E typed \in SourceInputs :
         /\ lastInput' = typed
         /\ IF in_values(typed, df, "SOURCE")
            THEN /\ source' = typed
                 /\ out' = Append(out, Line("Enter Source: "))
                 /\ pc' = "clb_sex"
            ELSE /\ Rejections(out) < MaxRetries
                 /\ out' = out \o <<Line("Enter Source: "),
                                    Line("Enter a valid source")>>
                 /\ pc' = "clb_source"
                 /\ UNCHANGED source
    /\ UNCHANGED <<df, agg_df, agg_df_final, country, sex, age, pending, err>>

\* line 156-163
clb_sex ==
    /\ pc = "clb_sex"
    /\ \E typed \in SexInputs :
         /\ lastInput' = typed
         /\ IF in_values(typed, df, "SEX")
            THEN /\ sex' = typed
                 /\ out' = Append(out, Line("Enter Sex: "))
                 /\ pc' = "clb_age"
            ELSE /\ Rejections(out) < MaxRetries
                 /\ out' = out \o <<Line("Enter Sex: "),
                                    Line("Enter a valid sex")>>
                 /\ pc' = "clb_sex"
                 /\ UNCHANGED sex
    /\ UNCHANGED <<df, agg_df, agg_df_final, country, source, age, pending, err>>

\* line 166-183.  A rejected entry calls clb_age again from inside the except
\* block (pending counts these suspended calls).  An accepted entry runs line
\* 174-183; when it returns into a suspended call, that call goes on to line
\* 174 with its own age never assigned, which raises UnboundLocalError.
clb_age ==
    /\ pc = "clb_age"
    /\ \E typed \in AgeInputs :
         LET parsed   == int(typed)
             interval == define_interval(agg_df, parsed.value)
             found    == matching(agg_df_final,
                                  person(country, source, sex, interval))
             report   == IF found = {} THEN Line("No such persona exists.")
                         ELSE Printed(found)
         IN /\ lastInput' = typed
            /\ IF ~parsed.ok
               THEN /\ Rejections(out) < MaxRetries
                    /\ out' = out \o <<Line("Enter Age: "),
                                       Line("Enter a valid number")>>
                    /\ pending' = pending + 1
                    /\ pc' = "clb_age"
                    /\ UNCHANGED <<age, err>>
               ELSE /\ age' = parsed
                    /\ UNCHANGED pending
                    /\ IF interval = None
                       THEN /\ out' = Append(out, Line("Enter Age: "))
                            /\ err' = "AttributeError"
                            /\ pc' = "crashed"
                       ELSE /\ out' = out \o <<Line("Enter Age: "), report>>
                            /\ IF pending > 0
                               THEN /\ err' = "UnboundLocalError"
                                    /\ pc' = "crashed"
                               ELSE /\ pc' = "done"
                                    /\ UNCHANGED err
    /\ UNCHANGED <<df, agg_df, agg_df_final, country, source, sex>>

Next ==
    \/ AggStep
    \/ AgeCatStep
    \/ LevelStep
    \/ FinalStep
    \/ SegmentStep
    \/ clb_country
    \/ clb_source
    \/ clb_sex
    \/ clb_age

Spec == Init /\ [][Next]_vars

SpecCodes == InitCodes /\ [][Next]_vars

SpecKeys == InitKeys /\ [][Next]_vars

----------------------------------------------------------------------------
(* Properties *)

\* the script got past line 95: every persona carries a SEGMENT
Segmented ==
    /\ agg_df_final # {}
    /\ \A x \in agg_df_final : "SEGMENT" \in DOMAIN x

\* the key derived from one raw record: its codes and the bucket of its age
RecordKey(r) ==
    customers_level_based([COUNTRY |-> r.COUNTRY, SOURCE |-> r.SOURCE,
                           SEX |-> r.SEX, AGE_CAT |-> age_cat(cut(r.AGE, Bins))])

\* the arithmetic mean of PRICE over the raw records whose key is k, each
\* record counted once
RecordMean(d, k) ==
    LET rs == {r \in BagToSet(d) : RecordKey(r) = k}
    IN Frac(NSum(rs, [r \in rs |-> CopiesIn(r, d) * r.PRICE]),
            NSum(rs, [r \in rs |-> CopiesIn(r, d)]))

\* C1: every row of the built table stores the arithmetic mean of PRICE over
\* exactly the raw records whose derived key is the row's key, each record
\* weighted once, however the records are spread over the exact ages of the
\* bucket.
C1_MeanOverRecords ==
    \A row \in agg_df_final :
        row.PRICE = RecordMean(df, row.customers_level_based)

\* C2: for every age a with 0 <= a < 70 the bucketizer returns the one
\* interval [b_i, b_i+1) of the bins with b_i <= a < b_i+1, and the lookup's
\* define_interval(a) returns the bucket table construction gives age a.
C2_BucketCoverage ==
    Segmented =>
        \A a \in Bins[1]..(Bins[Len(Bins)] - 1) :
            /\ cut(a, Bins) # NaN
            /\ cut(a, Bins).left <= a /\ a < cut(a, Bins).right
            /\ define_interval(agg_df, a) = cut(a, Bins)

FailureTexts == RejectTexts \cup {"No such persona exists."}

\* C3: for an age outside [0, 70) define_interval returns none of the
\* buckets, and the lookup that asked for it ends with a reported failure.
C3_OutOfRangeReported ==
    (age.ok /\ (age.value < Bins[1] \/ age.value >= Bins[Len(Bins)])) =>
        /\ define_interval(agg_df, age.value) = None
        /\ err = ""
        /\ pc = "done"
        /\ out[Len(out)].text \in FailureTexts

\* the 4-tuple a row of agg_df stands for
Tuple(x) == <<x.COUNTRY, x.SOURCE, x.SEX, x.AGE_CAT>>

\* line 82-83 has just built the keys of agg_df (no later step changes agg_df)
Keyed == pc = "final" /\ agg_df # {}

HasDelimiter(s) == \E i \in 1..Len(s) : s[i] = "_"

CleanCodes(x) ==
    ~HasDelimiter(x.COUNTRY) /\ ~HasDelimiter(x.SOURCE) /\ ~HasDelimiter(x.SEX)

UpperTuple(x) == <<upper(x.COUNTRY), upper(x.SOURCE), upper(x.SEX), x.AGE_CAT>>

SegmentRank(l) == CASE l = "D" -> 1 [] l = "C" -> 2 [] l = "B" -> 3 [] l = "A" -> 4

\* C5: in every built table a persona with a greater mean price never has a
\* lower segment than one with a smaller mean price, the segments ordered
\* D < C < B < A.
C5_SegmentMonotone ==
    Segmented =>
        \A p1, p2 \in agg_df_final :
            FLess(p2.PRICE, p1.PRICE) =>
                SegmentRank(p1.SEGMENT) >= SegmentRank(p2.SEGMENT)

\* three personas of rising price in three rising segments
C5_Witness ==
    /\ Segmented
    /\ \E p1, p2, p3 \in agg_df_final :
         /\ FLess(p1.PRICE, p2.PRICE) /\ FLess(p2.PRICE, p3.PRICE)
         /\ SegmentRank(p1.SEGMENT) < SegmentRank(p2.SEGMENT)
         /\ SegmentRank(p2.SEGMENT) < SegmentRank(p3.SEGMENT)

\* C6: segmentation of any non-empty set of personas completes without
\* error and gives every persona exactly one of the four labels.
C6_SegmentationCompletes ==
    (agg_df_final # {} /\ pc # "segment") =>
        /\ err # "ValueError"
        /\ \A x \in agg_df_final :
             "SEGMENT" \in DOMAIN x /\ x.SEGMENT \in {"D", "C", "B", "A"}

FinalOutputs(o) ==
    Cardinality({i \in DOMAIN o :
                    o[i].text \in {"<rows>", "No such persona exists."}})

\* C7: once the four fields have been accepted (the age last) and the age
\* has a bucket among the table's, the session has printed exactly one final
\* output and ended normally, also when rejected age entries came first.
C7_OneOutputThenNormalEnd ==
    (age.ok /\ define_interval(agg_df, age.value) # None) =>
        /\ pc = "done"
        /\ err = ""
        /\ FinalOutputs(out) = 1

\* C8: a lookup whose fields were all accepted, whose age is in [0, 70) and
\* whose key is not in the table reports "No such persona exists." and
\* prints no row.
C8_NotFoundReported ==
    (/\ age.ok
     /\ age.value >= Bins[1] /\ age.value < Bins[Len(Bins)]
     /\ matching(agg_df_final,
                 person(country, source, sex, cut(age.value, Bins))) = {}) =>
        /\ \E i \in DOMAIN out : out[i] = Line("No such persona exists.")
        /\ \A i \in DOMAIN out : out[i].text # "<rows>"

\* the step that accepts the input typed at prompt p and moves on to q
Accepts(p, q) == pc = p /\ pc' = q

\* the step that rejects the input typed at prompt p and prompts again
Rejects(p) == pc = p /\ pc' = p /\ out' # out

\* C9 as stated: a country, platform or sex input is accepted only if the
\* typed value is one of the batch's observed values of that field.
C9_AcceptsOnlyObserved ==
    [][ /\ Accepts("clb_country", "clb_source") => lastInput' \in Values(df, "COUNTRY")
        /\ Accepts("clb_source", "clb_sex") => lastInput' \in Values(df, "SOURCE")
        /\ Accepts("clb_sex", "clb_age") => lastInput' \in Values(df, "SEX")
      ]_vars

UpperValues(d, col) == {upper(v) : v \in Values(d, col)}

\* C9 amended: an input is accepted exactly when its lowercase form (for the
\* country, the lowercase form of its first three characters) is an observed
\* value of the field; what is kept for the key is the typed text (its first
\* three characters for the country), whose uppercase form is the uppercase
\* form of an observed value; any other input is rejected with the field's
\* message and a new prompt for the same field, the fields accepted earlier
\* unchanged.
C9_AcceptsObservedUpToCase ==
    [][ /\ Accepts("clb_country", "clb_source") =>
             /\ lower(Slice(lastInput', 3)) \in Values(df, "COUNTRY")
             /\ country' = Slice(lastInput', 3)
             /\ upper(country') \in UpperValues(df, "COUNTRY")
        /\ Accepts("clb_source", "clb_sex") =>
             /\ lower(lastInput') \in Values(df, "SOURCE")
             /\ source' = lastInput'
             /\ upper(source') \in UpperValues(df, "SOURCE")
        /\ Accepts("clb_sex", "clb_age") =>
             /\ lower(lastInput') \in Values(df, "SEX")
             /\ sex' = lastInput'
             /\ upper(sex') \in UpperValues(df, "SEX")
        /\ Rejects("clb_country") =>
             /\ lower(Slice(lastInput', 3)) \notin Values(df, "COUNTRY")
             /\ out'[Len(out')] = Line("Enter a valid country name")
             /\ UNCHANGED <<country, source, sex>>
        /\ Rejects("clb_source") =>
             /\ lower(lastInput') \notin Values(df, "SOURCE")
             /\ out'[Len(out')] = Line("Enter a valid source")
             /\ UNCHANGED <<country, source, sex>>
        /\ Rejects("clb_sex") =>
             /\ lower(lastInput') \notin Values(df, "SEX")
             /\ out'[Len(out')] = Line("Enter a valid sex")
             /\ UNCHANGED <<country, source, sex>>
      ]_vars

\* a country input that is no observed value was accepted after another one
\* had been rejected
C9_Witness ==
    /\ pc = "clb_source"
    /\ lastInput \notin Values(df, "COUNTRY")
    /\ country = Slice(lastInput, 3)
    /\ \E i \in DOMAIN out : out[i] = Line("Enter a valid country name")

\* the row of the built table a raw record contributed to
RowOf(r) == matching(agg_df_final, RecordKey(r))

\* entering the codes of a record r of the batch that satisfies Ok, and an
\* age of its bucket, is never rejected and prints the row of r
RoundTrip(Ok(_)) ==
    LET recs == {r \in BagToSet(df) : Ok(r)}
    IN /\ (pc = "clb_country" /\ lastInput' \in {r.COUNTRY : r \in recs}) =>
            pc' = "clb_source" /\ country' = lastInput'
       /\ (pc = "clb_source" /\ lastInput' \in {r.SOURCE : r \in recs}) =>
            pc' = "clb_sex" /\ source' = lastInput'
       /\ (pc = "clb_sex" /\ lastInput' \in {r.SEX : r \in recs}) =>
            pc' = "clb_age" /\ sex' = lastInput'
       /\ \A r \in recs :
            (/\ pc = "clb_age"
             /\ country = r.COUNTRY /\ source = r.SOURCE /\ sex = r.SEX
             /\ int(lastInput').ok
             /\ cut(int(lastInput').value, Bins) = cut(r.AGE, Bins)) =>
                /\ Cardinality(RowOf(r)) = 1
                /\ out'[Len(out')] = Printed(RowOf(r))

AnyRecord(r) == TRUE

\* C10 as stated: for every batch and every record of it, entering the
\* record's country, source and sex and any age of its bucket is never
\* rejected and prints the record's row.
C10_RoundTrip == [][RoundTrip(AnyRecord)]_vars

PlainCodes(r) ==
    /\ lower(r.COUNTRY) = r.COUNTRY /\ Len(r.COUNTRY) <= 3
    /\ lower(r.SOURCE) = r.SOURCE
    /\ lower(r.SEX) = r.SEX

\* C10 amended: the round trip holds for every record whose country, source
\* and sex codes are in lowercase and whose country code has at most three
\* characters.
C10_RoundTripOfPlainCodes == [][RoundTrip(PlainCodes)]_vars

\* a lookup of a record's codes with an age of its bucket other than its own
\* age ended by printing its row
C10_Witness ==
    /\ pc = "done"
    /\ \E r \in BagToSet(df) :
         /\ PlainCodes(r)
         /\ country = r.COUNTRY /\ source = r.SOURCE /\ sex = r.SEX
         /\ age.ok /\ age.value # r.AGE
         /\ cut(age.value, Bins) = cut(r.AGE, Bins)
         /\ out[Len(out)] = Printed(RowOf(r))

====
